---- MODULE Spec2Model ----
(***************************************************************************)
(* Model of main.py of MBU_Purge_Database: execute_stored_procedure,       *)
(* list_stored_procedures and main.  A call is a sequence of steps, one    *)
(* per statement that can fail; the outcome of every driver call is        *)
(* chosen nondeterministically.                                            *)
(***************************************************************************)
EXTENDS Integers, Sequences, FiniteSets, TLC

\* ---- bounds ----
MaxParams == 2
MaxRows == 1

\* ---- Python exceptions: class -> base class ----
BaseOf(c) ==
    CASE c = "pyodbc.ProgrammingError" -> "pyodbc.Error"
      [] c = "pyodbc.Error" -> "Exception"
      [] c = "ValueError" -> "Exception"
      [] c = "TypeError" -> "Exception"
      [] c = "UnboundLocalError" -> "NameError"
      [] c = "NameError" -> "Exception"
      [] c = "KeyError" -> "LookupError"
      [] c = "LookupError" -> "Exception"
      [] c = "Exception" -> "BaseException"
      [] OTHER -> "object"

RECURSIVE IsInstance(_, _)
IsInstance(c, cls) ==
    IF c = cls THEN TRUE
    ELSE IF c \in {"BaseException", "object"} THEN FALSE
    ELSE IsInstance(BaseOf(c), cls)

\* what the driver raises when a call to it fails
DriverErrors == {"pyodbc.Error", "pyodbc.ProgrammingError"}

\* ---- values ----
AllNames == <<"a", "b", "c", "d">>
Names == {AllNames[i] : i \in 1..MaxParams}
Procs == {"RPA.journalizing.sp_UpdatePurgeMarker", "dbo.sp_Other"}
RowCounts == 0..MaxRows

PyVal(t, r) == [py |-> t, repr |-> r]
RawValues == {PyVal("str", "2024"), PyVal("str", "x"), PyVal("object", "<object>")}

TypeTags == {"str", "int", "float", "datetime", "json", "bool"}

\* a dictionary value: a tuple or not, with its elements
Pair(t, v) == [isTuple |-> TRUE, elems |-> <<PyVal("str", t), v>>]
WellShaped == {Pair(t, v) : t \in TypeTags, v \in RawValues}
Malformed == {[isTuple |-> FALSE, elems |-> <<PyVal("str", "int"), PyVal("str", "2024")>>],
              [isTuple |-> TRUE, elems |-> <<PyVal("str", "2024")>>]}
Entries == WellShaped \cup Malformed

Ok(v) == [ok |-> TRUE, value |-> v]
Raise(e) == [ok |-> FALSE, exc |-> e]

IsNumeric(s) == s \in {"2024"}
IsIso(s) == s \in {"2024"}
FloatRepr(s) == IF s = "2024" THEN "2024.0" ELSE s
IsoRepr(s) == IF s = "2024" THEN "2024-01-01T00:00:00" ELSE s
JsonRepr(s) == IF s = "2024" THEN "\"2024\"" ELSE IF s = "x" THEN "\"x\"" ELSE s

PyStr(v) == Ok(PyVal("str", v.repr))

PyInt(v) ==
    IF v.py # "str" THEN Raise("TypeError")
    ELSE IF IsNumeric(v.repr) THEN Ok(PyVal("int", v.repr))
    ELSE Raise("ValueError")

PyFloat(v) ==
    IF v.py # "str" THEN Raise("TypeError")
    ELSE IF IsNumeric(v.repr) THEN Ok(PyVal("float", FloatRepr(v.repr)))
    ELSE Raise("ValueError")

IsoParse(v) ==
    IF v.py # "str" THEN Raise("TypeError")
    ELSE IF IsIso(v.repr) THEN Ok(PyVal("datetime", IsoRepr(v.repr)))
    ELSE Raise("ValueError")

JsonDumps(v) ==
    IF v.py = "str" THEN Ok(PyVal("str", JsonRepr(v.repr)))
    ELSE Raise("TypeError")

type_mapping == {"str", "int", "float", "datetime", "json"}

Convert(tag, v) ==
    CASE tag = "str" -> PyStr(v)
      [] tag = "int" -> PyInt(v)
      [] tag = "float" -> PyFloat(v)
      [] tag = "datetime" -> IsoParse(v)
      [] tag = "json" -> JsonDumps(v)

\* one pass of the loop body, lines 55-62
CoerceEntry(value) ==
    IF value.isTuple /\ Len(value.elems) = 2
    THEN LET value_type == value.elems[1].repr
             actual_value == value.elems[2]
         IN  IF value_type \in type_mapping
             THEN Convert(value_type, actual_value)
             ELSE Ok(actual_value)
    ELSE Raise("ValueError")

\* the loop of lines 52-62 over params.items(), from item i on
RECURSIVE CoerceFrom(_, _, _)
CoerceFrom(items, i, acc) ==
    IF i > Len(items) THEN Ok(acc)
    ELSE LET r == CoerceEntry(items[i].value)
         IN  IF r.ok THEN CoerceFrom(items, i + 1, Append(acc, r.value))
             ELSE r

CoerceAll(items) == CoerceFrom(items, 1, <<>>)

\* variant: the placeholders are written in the opposite order of the values
Placeholders_Reversed(items) ==
    [i \in 1..Len(items) |-> [name |-> items[Len(items) + 1 - i].key, marker |-> "?"]]

\* line 51: one "@key = ?" per key of params.keys(), joined by ", "
Placeholders(items) == [i \in 1..Len(items) |-> [name |-> items[i].key, marker |-> "?"]]

\* variant: the placeholders are put in alphabetical order, the values are not
Statement_SortedNames(sp, placeholders) ==
    LET used == {placeholders[i].name : i \in 1..Len(placeholders)}
        InUse(n) == n \in used
        sorted == SelectSeq(AllNames, InUse)
    IN  [verb |-> "EXEC", proc |-> sp,
         placeholders |-> [i \in 1..Len(sorted) |-> [name |-> sorted[i], marker |-> "?"]]]

\* lines 64 and 68
Statement(stored_procedure, placeholders) ==
    [verb |-> "EXEC", proc |-> stored_procedure, placeholders |-> placeholders]

\* ---- parameter mappings: None, or a dict in insertion order ----
NoneParams == [isNone |-> TRUE, items |-> <<>>]
Dict(items) == [isNone |-> FALSE, items |-> items]
Truthy(p) == ~p.isNone /\ Len(p.items) > 0

ItemSeqs(n) == {s \in [1..n -> [key : Names, value : Entries]] :
                   \A i, j \in 1..n : i # j => s[i].key # s[j].key}
ParamSets == {NoneParams} \cup {Dict(s) : s \in UNION {ItemSeqs(n) : n \in 0..MaxParams}}

Reorderings(items) ==
    LET n == Len(items)
    IN  {[i \in 1..n |-> items[f[i]]] :
            f \in {g \in [1..n -> 1..n] : \A i, j \in 1..n : i # j => g[i] # g[j]}}

\* ---- result dictionary and messages ----
None == [isNone |-> TRUE]
Message(prefix, e) == [isNone |-> FALSE, prefix |-> prefix, detail |-> e]

Unbound == [bound |-> FALSE]
Bound(n) == [bound |-> TRUE, rowcount |-> n]

NotSent == [sent |-> FALSE]
NoPrev == [called |-> FALSE]

VARIABLES caller, pc, mainPc, events, stored_procedure, params, conn, cursor,
          sql, param_values, sent, tryres, rows_updated, committed, result,
          exc, failedAt, prev

vars == <<caller, pc, mainPc, events, stored_procedure, params, conn, cursor,
          sql, param_values, sent, tryres, rows_updated, committed, result,
          exc, failedAt, prev>>

callVars == <<stored_procedure, params, conn, cursor, sql, param_values, sent,
              tryres, rows_updated, committed, result, exc, failedAt>>

Init ==
    /\ caller = "none"
    /\ pc = "idle"
    /\ mainPc = "idle"
    /\ events = <<>>
    /\ stored_procedure = ""
    /\ params = NoneParams
    /\ conn = "none"
    /\ cursor = "none"
    /\ sql = None
    /\ param_values = <<>>
    /\ sent = NotSent
    /\ tryres = Unbound
    /\ rows_updated = Unbound
    /\ committed = FALSE
    /\ result = [x \in {} |-> 0]
    /\ exc = "none"
    /\ failedAt = "none"
    /\ prev = NoPrev

\* entry of execute_stored_procedure, lines 34-45
Enter(sp, p) ==
    /\ pc' = "try"
    /\ stored_procedure' = sp
    /\ params' = p
    /\ conn' = "none"
    /\ cursor' = "none"
    /\ sql' = None
    /\ param_values' = <<>>
    /\ sent' = NotSent
    /\ tryres' = Unbound
    /\ rows_updated' = Unbound
    /\ committed' = FALSE
    /\ result' = [success |-> FALSE, error_message |-> None]
    /\ exc' = "none"
    /\ failedAt' = "none"

\* a caller other than main calls execute_stored_procedure
CallExecute ==
    /\ caller = "none"
    /\ \E sp \in Procs, p \in ParamSets : Enter(sp, p)
    /\ caller' = "direct"
    /\ UNCHANGED <<mainPc, events, prev>>

\* a call whose statement reached the driver is repeated by its caller with the
\* same entries, inserted in any order
CallAgain ==
    /\ caller = "direct"
    /\ pc = "returned"
    /\ ~prev.called
    /\ sent.sent
    /\ prev' = [called |-> TRUE, stored_procedure |-> stored_procedure,
                params |-> params, sent |-> sent]
    /\ \E s \in Reorderings(params.items) :
          Enter(stored_procedure, [isNone |-> params.isNone, items |-> s])
    /\ UNCHANGED <<caller, mainPc, events>>

InExecute == caller \in {"direct", "main"}

RaiseAt(step, e) ==
    /\ exc' = e
    /\ failedAt' = step
    /\ pc' = "raised"

\* line 48: pyodbc.connect
Connect ==
    /\ InExecute
    /\ pc = "try"
    /\ \/ /\ conn' = "open"
          /\ pc' = "connected"
          /\ UNCHANGED <<exc, failedAt>>
       \/ /\ \E e \in DriverErrors : RaiseAt("connect", e)
          /\ UNCHANGED conn
    /\ UNCHANGED <<caller, mainPc, events, stored_procedure, params, cursor, sql,
                   param_values, sent, tryres, rows_updated, committed, result, prev>>

\* line 49: conn.cursor()
Cursor ==
    /\ InExecute
    /\ pc = "connected"
    /\ \/ /\ cursor' = "open"
          /\ pc' = "body"
          /\ UNCHANGED <<exc, failedAt>>
       \/ /\ \E e \in DriverErrors : RaiseAt("cursor", e)
          /\ UNCHANGED cursor
    /\ UNCHANGED <<caller, mainPc, events, stored_procedure, params, conn, sql,
                   param_values, sent, tryres, rows_updated, committed, result, prev>>

\* lines 50-64 and 68: placeholders, the coercion loop and the statement text
Prepare ==
    /\ InExecute
    /\ pc = "body"
    /\ IF Truthy(params)
       THEN LET r == CoerceAll(params.items)
            IN  IF r.ok
                THEN /\ param_values' = r.value
                     /\ sql' = Statement(stored_procedure, Placeholders(params.items))
                     /\ pc' = "prepared"
                     /\ UNCHANGED <<exc, failedAt>>
                ELSE /\ RaiseAt("coerce", r.exc)
                     /\ UNCHANGED <<param_values, sql>>
       ELSE /\ sql' = Statement(stored_procedure, <<>>)
            /\ pc' = "prepared"
            /\ UNCHANGED <<param_values, exc, failedAt>>
    /\ UNCHANGED <<caller, mainPc, events, stored_procedure, params, conn, cursor,
                   sent, tryres, rows_updated, committed, result, prev>>

\* lines 65 and 69: cursor.execute
Execute ==
    /\ InExecute
    /\ pc = "prepared"
    /\ sent' = [sent |-> TRUE, sql |-> sql,
                values |-> IF Truthy(params) THEN param_values ELSE <<>>]
    /\ \/ /\ \E n \in RowCounts :
                IF Truthy(params)
                THEN tryres' = Bound(n) /\ UNCHANGED rows_updated
                ELSE rows_updated' = Bound(n) /\ UNCHANGED tryres
          /\ pc' = "executed"
          /\ UNCHANGED <<exc, failedAt>>
       \/ /\ \E e \in DriverErrors : RaiseAt("execute", e)
          /\ UNCHANGED <<tryres, rows_updated>>
    /\ UNCHANGED <<caller, mainPc, events, stored_procedure, params, conn, cursor,
                   sql, param_values, committed, result, prev>>

\* line 71: conn.commit()
Commit ==
    /\ InExecute
    /\ pc = "executed"
    /\ \/ /\ committed' = TRUE
          /\ pc' = "committed"
          /\ UNCHANGED <<exc, failedAt>>
       \/ /\ \E e \in DriverErrors : RaiseAt("commit", e)
          /\ UNCHANGED committed
    /\ UNCHANGED <<caller, mainPc, events, stored_procedure, params, conn, cursor,
                   sql, param_values, sent, tryres, rows_updated, result, prev>>

\* lines 72-73
SetResult ==
    /\ InExecute
    /\ pc = "committed"
    /\ IF rows_updated.bound
       THEN /\ result' = [success |-> TRUE, error_message |-> result.error_message,
                          rows_updated |-> rows_updated.rowcount]
            /\ pc' = "leaving"
            /\ UNCHANGED <<exc, failedAt>>
       ELSE /\ result' = [result EXCEPT !.success = TRUE]
            /\ RaiseAt("rowcount", "UnboundLocalError")
    /\ UNCHANGED <<caller, mainPc, events, stored_procedure, params, conn, cursor,
                   sql, param_values, sent, tryres, rows_updated, committed, prev>>

\* leaving a with block releases what it holds
Released(r) == IF r = "open" THEN "closed" ELSE r

\* lines 48-49 and 81: both with blocks are left, the result is returned
Return ==
    /\ InExecute
    /\ pc = "leaving"
    /\ cursor' = Released(cursor)
    /\ conn' = Released(conn)
    /\ pc' = "returned"
    /\ UNCHANGED <<caller, mainPc, events, stored_procedure, params, sql, param_values,
                   sent, tryres, rows_updated, committed, result, exc, failedAt, prev>>

\* variant: no catch-all clause
HandlerFor_NoCatchAll(e) ==
    IF IsInstance(e, "pyodbc.Error") THEN "Database error: "
    ELSE IF IsInstance(e, "ValueError") THEN "Value error: "
    ELSE "unhandled"

\* variant: the clauses match the exact class only
HandlerFor_ExactClass(e) ==
    IF e = "pyodbc.Error" THEN "Database error: "
    ELSE IF e = "ValueError" THEN "Value error: "
    ELSE IF IsInstance(e, "Exception") THEN "An unexpected error occurred: "
    ELSE "unhandled"

\* lines 74-79: the first except clause whose class the exception is an instance of
HandlerFor(e) ==
    IF IsInstance(e, "pyodbc.Error") THEN "Database error: "
    ELSE IF IsInstance(e, "ValueError") THEN "Value error: "
    ELSE IF IsInstance(e, "Exception") THEN "An unexpected error occurred: "
    ELSE "unhandled"

\* an exception leaves the with blocks and reaches the except clauses, then line 81
Handle ==
    /\ InExecute
    /\ pc = "raised"
    /\ cursor' = Released(cursor)
    /\ conn' = Released(conn)
    /\ IF HandlerFor(exc) = "unhandled"
       THEN pc' = "propagated" /\ UNCHANGED result
       ELSE /\ result' = [result EXCEPT !.error_message = Message(HandlerFor(exc), exc)]
            /\ pc' = "returned"
    /\ UNCHANGED <<caller, mainPc, events, stored_procedure, params, sql, param_values,
                   sent, tryres, rows_updated, committed, exc, failedAt, prev>>

execute_stored_procedure ==
    Connect \/ Cursor \/ Prepare \/ Execute \/ Commit \/ SetResult \/ Return \/ Handle

\* ---- list_stored_procedures ----
Catalogs == {<<>>, <<"sp_UpdatePurgeMarker">>}

\* an exception of list_stored_procedures: nothing catches it, lines 95-107
ListRaise(step, e) ==
    /\ exc' = e
    /\ failedAt' = step
    /\ pc' = "propagated"

\* line 92: entry of list_stored_procedures
ListCall ==
    /\ caller = "none"
    /\ caller' = "list"
    /\ pc' = "l_connect"
    /\ UNCHANGED <<mainPc, events, prev>>
    /\ UNCHANGED callVars

\* line 95: conn = pyodbc.connect(connection_string)
ListConnect ==
    /\ caller = "list"
    /\ pc = "l_connect"
    /\ \/ /\ conn' = "open"
          /\ pc' = "l_cursor"
          /\ UNCHANGED <<exc, failedAt>>
       \/ /\ \E e \in DriverErrors : ListRaise("connect", e)
          /\ UNCHANGED conn
    /\ UNCHANGED <<caller, mainPc, events, stored_procedure, params, cursor, sql,
                   param_values, sent, tryres, rows_updated, committed, result, prev>>

\* line 98: with conn.cursor() as cursor
ListCursor ==
    /\ caller = "list"
    /\ pc = "l_cursor"
    /\ \/ /\ cursor' = "open"
          /\ pc' = "l_execute"
          /\ UNCHANGED <<exc, failedAt>>
       \/ /\ \E e \in DriverErrors : ListRaise("cursor", e)
          /\ UNCHANGED cursor
    /\ UNCHANGED <<caller, mainPc, events, stored_procedure, params, conn, sql,
                   param_values, sent, tryres, rows_updated, committed, result, prev>>

\* lines 101-104: the catalog query; an exception leaves the with block of the cursor
ListExecute ==
    /\ caller = "list"
    /\ pc = "l_execute"
    /\ \/ /\ pc' = "l_fetch"
          /\ UNCHANGED <<cursor, exc, failedAt>>
       \/ /\ \E e \in DriverErrors : ListRaise("execute", e)
          /\ cursor' = Released(cursor)
    /\ UNCHANGED <<caller, mainPc, events, stored_procedure, params, conn, sql,
                   param_values, sent, tryres, rows_updated, committed, result, prev>>

\* line 107: cursor.fetchall(), then the with block of the cursor is left
ListFetch ==
    /\ caller = "list"
    /\ pc = "l_fetch"
    /\ cursor' = Released(cursor)
    /\ \/ /\ \E rows \in Catalogs : result' = [procedures |-> rows]
          /\ pc' = "l_close"
          /\ UNCHANGED <<exc, failedAt>>
       \/ /\ \E e \in DriverErrors : ListRaise("fetchall", e)
          /\ UNCHANGED result
    /\ UNCHANGED <<caller, mainPc, events, stored_procedure, params, conn, sql,
                   param_values, sent, tryres, rows_updated, committed, prev>>

\* lines 110-113: conn.close() and the return of the names
ListClose ==
    /\ caller = "list"
    /\ pc = "l_close"
    /\ conn' = "closed"
    /\ pc' = "returned"
    /\ UNCHANGED <<caller, mainPc, events, stored_procedure, params, cursor, sql,
                   param_values, sent, tryres, rows_updated, committed, result,
                   exc, failedAt, prev>>

list_stored_procedures ==
    ListConnect \/ ListCursor \/ ListExecute \/ ListFetch \/ ListClose

\* ---- main ----
Event(kind, text, n) == [kind |-> kind, text |-> text, n |-> n]
HeartbeatRunning == Event("heartbeat", "RUNNING", 0)
LogRunning == Event("log_event", "Running purge of database", 0)
CallEvent == Event("call", "execute_stored_procedure", 0)
LogPurged(n) == Event("log_event", "Purged N forms", n)

\* lines 118-123
MainHeartbeat ==
    /\ caller = "none"
    /\ caller' = "main"
    /\ mainPc' = "heartbeat_sent"
    /\ events' = Append(events, HeartbeatRunning)
    /\ UNCHANGED <<pc, prev>>
    /\ UNCHANGED callVars

\* lines 124-130
MainLogRunning ==
    /\ caller = "main"
    /\ mainPc = "heartbeat_sent"
    /\ mainPc' = "logged"
    /\ events' = Append(events, LogRunning)
    /\ UNCHANGED <<caller, pc, prev>>
    /\ UNCHANGED callVars

\* lines 131-134: the call, without a params argument
MainCall ==
    /\ caller = "main"
    /\ mainPc = "logged"
    /\ mainPc' = "calling"
    /\ events' = Append(events, CallEvent)
    /\ Enter("RPA.journalizing.sp_UpdatePurgeMarker", NoneParams)
    /\ UNCHANGED <<caller, prev>>

\* variant: the row count is read with a default instead of a lookup
MainLogPurged_Get ==
    /\ caller = "main"
    /\ mainPc = "calling"
    /\ pc = "returned"
    /\ events' = Append(events, LogPurged(IF "rows_updated" \in DOMAIN result
                                          THEN result.rows_updated ELSE 0))
    /\ mainPc' = "done"
    /\ UNCHANGED <<caller, pc, prev>>
    /\ UNCHANGED callVars

\* lines 135-141: res["rows_updated"] is looked up to build the message
MainLogPurged ==
    /\ caller = "main"
    /\ mainPc = "calling"
    /\ pc = "returned"
    /\ IF "rows_updated" \in DOMAIN result
       THEN /\ events' = Append(events, LogPurged(result.rows_updated))
            /\ mainPc' = "done"
       ELSE /\ mainPc' = "KeyError"
            /\ UNCHANGED events
    /\ UNCHANGED <<caller, pc, prev>>
    /\ UNCHANGED callVars

main == MainHeartbeat \/ MainLogRunning \/ MainCall \/ MainLogPurged

Next ==
    \/ CallExecute
    \/ CallAgain
    \/ ListCall
    \/ execute_stored_procedure
    \/ list_stored_procedures
    \/ main

Spec == Init /\ [][Next]_vars

\* ---- properties ----
Returned == InExecute /\ pc = "returned"
Ended == InExecute /\ pc \in {"returned", "propagated"}
HasRows == "rows_updated" \in DOMAIN result
DriverSteps == {"connect", "cursor", "execute", "commit"}
ReportedRowcount == IF tryres.bound THEN tryres.rowcount ELSE rows_updated.rowcount

\* C1: in every returned result, success is true iff error_message is None,
\* and rows_updated is present only when success is true.
C1_ResultShape ==
    Returned =>
        /\ result.success <=> result.error_message.isNone
        /\ HasRows => result.success

\* C2: execute_stored_procedure never ends by raising: whatever step fails,
\* the call ends by returning a result dictionary with both of its fields.
C2_NeverPropagates ==
    InExecute =>
        /\ pc # "propagated"
        /\ pc = "raised" => HandlerFor(exc) # "unhandled"
        /\ pc = "returned" => {"success", "error_message"} \subseteq DOMAIN result

C2_Witness ==
    Returned /\ failedAt = "coerce" /\ exc = "TypeError" /\ ~result.error_message.isNone

\* C3: when connect, every coercion, the execution and the commit all
\* succeed, the result is success with no error message and rows_updated
\* equal to the row count the execution reported, with or without parameters.
C3_SuccessResult ==
    Returned /\ committed =>
        /\ result.success
        /\ result.error_message.isNone
        /\ HasRows
        /\ result.rows_updated = ReportedRowcount

\* C4: a call that aborts on an ill-shaped or unconvertible parameter returns
\* success false and a message that starts with "Value error: ".
C4_ValueErrorPrefix ==
    Returned /\ failedAt = "coerce" =>
        /\ ~result.success
        /\ ~result.error_message.isNone
        /\ result.error_message.prefix = "Value error: "

\* C5: a driver failure in connect, cursor acquisition, execution or commit
\* gives success false and a message that starts with "Database error: ".
C5_DriverFailure ==
    Ended /\ failedAt \in DriverSteps =>
        /\ pc = "returned"
        /\ ~result.success
        /\ ~result.error_message.isNone
        /\ result.error_message.prefix = "Database error: "

C5_Witness ==
    Returned /\ failedAt = "commit" /\ exc = "pyodbc.ProgrammingError"
             /\ result.error_message.prefix = "Database error: "

\* C6: a call that returns a result carrying an error message issued no commit.
C6_NoCommitOnFailure ==
    Returned /\ ~result.error_message.isNone => ~committed

\* C7: when a call of execute_stored_procedure or list_stored_procedures
\* ends, by return or by exception, no connection or cursor it acquired is
\* still open.
C7_Released ==
    (caller # "none" /\ pc \in {"returned", "propagated"}) =>
        conn # "open" /\ cursor # "open"

KeysOf(items) == {items[i].key : i \in 1..Len(items)}

\* C8: the statement passed to the driver is EXEC <procedure> followed by one
\* "@name = ?" per parameter, without duplicates, and the i-th bound value is
\* the coerced value of the parameter the i-th placeholder names; with an
\* empty or absent parameter set it is EXEC <procedure> with no bound value.
C8_Statement ==
    (InExecute /\ sent.sent) =>
        LET ph == sent.sql.placeholders
        IN  /\ sent.sql.verb = "EXEC"
            /\ sent.sql.proc = stored_procedure
            /\ IF Truthy(params)
               THEN /\ Len(ph) = Len(params.items)
                    /\ Len(sent.values) = Len(ph)
                    /\ \A i, j \in 1..Len(ph) : i # j => ph[i].name # ph[j].name
                    /\ {ph[i].name : i \in 1..Len(ph)} = KeysOf(params.items)
                    /\ \A i \in 1..Len(ph) :
                          /\ ph[i].marker = "?"
                          /\ \E k \in 1..Len(params.items) :
                                /\ params.items[k].key = ph[i].name
                                /\ CoerceEntry(params.items[k].value) = Ok(sent.values[i])
               ELSE ph = <<>> /\ sent.values = <<>>

C8_Witness ==
    /\ InExecute
    /\ sent.sent
    /\ Len(params.items) = 2
    /\ sent.values[1] # sent.values[2]

SameEntries(p, q) ==
    /\ p.isNone = q.isNone
    /\ {p.items[i] : i \in 1..Len(p.items)} = {q.items[i] : i \in 1..Len(q.items)}

TwoCallsSent ==
    /\ caller = "direct"
    /\ prev.called
    /\ sent.sent
    /\ prev.sent.sent
    /\ prev.stored_procedure = stored_procedure
    /\ SameEntries(params, prev.params)

Bindings(s) == {<<s.sql.placeholders[i].name, s.values[i]>> : i \in 1..Len(s.values)}

\* C9 as stated: two calls with the same procedure and the same entries,
\* inserted in different orders, pass the same statement text and the same
\* bound-value sequence to the driver.
C9_OrderIndependent ==
    TwoCallsSent => sent.sql = prev.sent.sql /\ sent.values = prev.sent.values

\* C9 amended: the placeholders follow the insertion order of the mapping;
\* two calls with the same procedure and the same entries pass the same
\* name-to-value bindings, and the same statement text and value sequence
\* when the entries were inserted in the same order.
C9_InsertionOrder ==
    TwoCallsSent =>
        /\ \A i \in 1..Len(params.items) :
              sent.sql.placeholders[i].name = params.items[i].key
        /\ Len(sent.sql.placeholders) = Len(params.items)
        /\ Bindings(sent) = Bindings(prev.sent)
        /\ params.items = prev.params.items => sent = prev.sent

C9_Witness ==
    /\ TwoCallsSent
    /\ params.items # prev.params.items
    /\ sent.values # prev.sent.values

MainOrder(n) == <<HeartbeatRunning, LogRunning, CallEvent, LogPurged(n)>>

\* C10: main sends the heartbeat, logs "Running purge of database", calls
\* execute_stored_procedure once with no parameters, and logs "Purged N forms"
\* iff the call returned success; after a failure result main ends with a
\* KeyError on rows_updated and logs nothing more.
C10_MainOrder ==
    caller = "main" =>
        /\ Len(events) <= 4
        /\ \A i \in 1..Len(events) : i <= 3 => events[i] = MainOrder(0)[i]
        /\ pc # "idle" => (Len(events) >= 3 /\ params = NoneParams)
        /\ mainPc \in {"done", "KeyError"} => pc = "returned"
        /\ mainPc = "done" <=> Len(events) = 4
        /\ mainPc = "done" =>
              result.success /\ events[4] = LogPurged(result.rows_updated)
        /\ mainPc = "KeyError" => ~result.success /\ ~HasRows
        /\ (pc = "returned" /\ ~result.success) => Len(events) = 3

C10_Witness ==
    caller = "main" /\ mainPc = "KeyError" /\ failedAt = "execute" /\ Len(events) = 3

====
